---- MODULE Spec2Model ----
(***************************************************************************)
(* Model of the classes of the task files that carry behavioural claims.   *)
(* Each task file is a stand-alone script, so every class gets its own     *)
(* group of variables and its own specification (SpecBank, SpecCounter,    *)
(* ...); a specification moves only the variables of its class and leaves  *)
(* the other groups at their initial value.                                *)
(*                                                                         *)
(* Threads are CPython threads: the interpreter may switch threads between *)
(* any two bytecodes, so every read of a shared attribute and every write  *)
(* of one is a step of its own; a time.sleep between them only makes the   *)
(* switch likely, it is not needed for it.                                 *)
(***************************************************************************)
EXTENDS Integers, Sequences, FiniteSets, TLC

(***************************************************************************)
(* Bounds of the model (the scripts use 5 pairs of threads, 100 rounds).   *)
(***************************************************************************)
BankPairs == 2
BankRounds == 2
CounterThreads == 2
CounterRounds == 2
CacheThreadCount == 2
CacheMaxCalls == 2
CacheMaxValue == 2
DbThreadCount == 2
DbMaxCalls == 2
ImageCount == 2
ImgMaxTime == 12
CmMaxValue == 2
CmStep == 1800
CmMaxTicks == 3
RandIdMax == 3
Um36MaxData == 2
Um36MaxCalls == 3
Um36MaxDicts == 2
T42MaxCalls == 3
T42MaxOrderId == 2
ExcMaxHandlers == 2
GenIdCount == 4
GenMaxCalls == 4
DiscMaxPrice == 100
DiscMaxPct == 100
PoolTasks == 3

(***************************************************************************)
(* Program constants.                                                      *)
(***************************************************************************)
InitialBalance == 1000
Amount == 10
\* Task_07 main: two threads run acquire_resources
RmThreadCount == 2
\* Task_07 main: WorkerPool(max_workers=2)
PoolMaxWorkers == 2
\* Task_25 RandomGenerator.generate_id: the lowest number drawn
GenIdMin == 1000
\* Task_06 CacheManager.get: seconds between two cleanups
CleanupInterval == 3600
\* Task_07 ImageProcessor, in ticks of 0.1 s
JoinTimeout == 10
SleepMin == 1
SleepMax == 5

VARIABLES
    \* Task_07 BankAccount and the threads of main()
    _balance,        \* BankAccount._balance
    bankPc,          \* thread -> position inside deposit/withdraw
    current_balance, \* thread -> the local current_balance
    bankLeft,        \* thread -> calls the thread has still to make
    \* Task_07 Counter and the threads of main()
    _value,          \* Counter._value
    cntPc,           \* thread -> position inside increment/decrement
    current,         \* thread -> the local current
    cntLeft,         \* thread -> increment/decrement pairs still to make
    incDone,         \* number of increment calls that have returned
    decDone,         \* number of decrement calls that have returned
    \* Task_07 Cache and the threads calling it
    _cache,          \* Cache._cache: key -> value, or Absent
    _access_count,   \* Cache._access_count: key -> count, or Absent
    _lock,           \* Cache._lock: the thread holding it, or 0
    cachePc,         \* thread -> position inside get/set/clear
    cacheCall,       \* thread -> the call the thread is inside
    cacheTmp,        \* thread -> value of self._access_count.get(key, 0)
    cacheHist,       \* thread -> the calls the thread has made, in order
    \* Task_16 DatabaseConnection and the threads calling DatabaseConnection()
    _instance,       \* DatabaseConnection._instance: an object, or NoObject
    dbCreated,       \* number of objects super().__new__(cls) has created
    dbInitialized,   \* the objects whose own _initialized is True
    dbPc,            \* thread -> position inside __new__/__init__
    dbSelf,          \* thread -> the object __new__ returned to the call
    dbReturned,      \* thread -> the objects its calls returned, in order
    \* Task_07 ImageProcessor, its worker threads and the thread calling it
    imgNow,          \* the time, in ticks of 0.1 s
    _workers,        \* ImageProcessor._workers: the threads, in the order started
    workerState,     \* worker -> "new", "running" or "finished"
    workerWake,      \* worker -> the time its time.sleep ends
    _stop_event,     \* ImageProcessor._stop_event is set
    imgPc,           \* position of the caller: "start", "join" or "returned"
    imgJoin,         \* index in _workers of the worker being joined
    imgDeadline,     \* the time the join in progress times out
    \* Task_06 CacheManager and its caller
    cm_cache,        \* CacheManager._cache: key -> value, or Absent
    _last_cleanup,   \* CacheManager._last_cleanup, in seconds
    cmNow,           \* time.time(), in seconds since the manager was made
    cmPending,       \* key -> the value of the last set(key, .) that no get(key) followed yet
    cmLast,          \* the last call, with what it returned
    \* Task_36 UserManager and its caller
    users,           \* UserManager.users: id -> the dict object stored, or Absent
    umHeap,          \* the dict objects the caller made, in order: object -> its items
    addHist,         \* the add_user calls made: id returned, object, its items, id was new
    umOther,         \* number of update_user and delete_user calls made
    umLast,          \* the last UserManager call and what it returned
    \* Task_42: the module's DATABASE, LOGGER and the calls made
    dbTables,        \* the tables of DATABASE (sqlite3, in memory)
    dbOrders,        \* the rows of its table orders
    loggedErrors,    \* number of LOGGER.error calls
    t42Calls,        \* the calls made: name, argument and outcome
    \* Task_08: one try statement with its except clauses
    excPc,           \* "ready", "handled" or "propagated"
    excRaised,       \* the class of the exception the try block raised
    excHandlers,     \* the classes of the except clauses, in order
    excCaughtBy,     \* index of the clause that caught it, 0 when none did
    \* Task_25 RandomGenerator and its caller
    genIds,          \* the ids generate_id has returned, in order
    \* Task_01 calculate_discount: one call
    discPc,          \* "ready" or "returned"
    discPrice,       \* the argument price
    discPct,         \* the argument discount_percentage
    discResult,      \* the value returned
    \* Task_07 WorkerPool, its executor's threads and the thread submitting
    poolLock,        \* WorkerPool._lock: <<>> when free, else the thread holding it
    _active_tasks,   \* WorkerPool._active_tasks: a set of futures
    futState,        \* future -> "none", "queued", "running" or "finished"
    futCallback,     \* the futures _task_done is registered on
    poolPc,          \* position of the submitting thread inside submit_task
    poolCall,        \* number of the submit_task call in progress (its future)
    poolReturned,    \* number of submit_task calls that have returned
    wkPc,            \* executor thread -> "idle", "run", "cb_acquire", "cb_discard"
    wkFut,           \* executor thread -> the future it works on
    \* Task_07 ResourceManager and the threads of main() that use it
    _resources,       \* ResourceManager._resources: resource -> Lock object, NoObject when absent
    _resource_locks,  \* ResourceManager._resource_locks: the same
    rmNextLock,       \* the identity the next threading.Lock() gets
    rmLocked,         \* the Lock objects that are locked
    rmPc,             \* thread -> its position inside the call in progress
    rmCall,           \* thread -> number of the call of acquire_resources in progress
    rmObj,            \* thread -> the Lock object it looked up last
    rmHeld            \* thread -> the resources it acquired and has not begun to release

bankVars == <<_balance, bankPc, current_balance, bankLeft>>
counterVars == <<_value, cntPc, current, cntLeft, incDone, decDone>>
cacheVars == <<_cache, _access_count, _lock, cachePc, cacheCall, cacheTmp, cacheHist>>
singletonVars == <<_instance, dbCreated, dbInitialized, dbPc, dbSelf, dbReturned>>
imageVars == <<imgNow, _workers, workerState, workerWake, _stop_event, imgPc, imgJoin, imgDeadline>>
cacheManagerVars == <<cm_cache, _last_cleanup, cmNow, cmPending, cmLast>>
users36Vars == <<users, umHeap, addHist, umOther, umLast>>
task42Vars == <<dbTables, dbOrders, loggedErrors, t42Calls>>
exceptionsVars == <<excPc, excRaised, excHandlers, excCaughtBy>>
randomGeneratorVars == <<genIds>>
discountVars == <<discPc, discPrice, discPct, discResult>>
workerPoolVars == <<poolLock, _active_tasks, futState, futCallback, poolPc, poolCall, poolReturned, wkPc, wkFut>>
resourceManagerVars == <<_resources, _resource_locks, rmNextLock, rmLocked, rmPc, rmCall, rmObj, rmHeld>>
vars == <<bankVars, counterVars, cacheVars, singletonVars, imageVars, cacheManagerVars, users36Vars, task42Vars, exceptionsVars, randomGeneratorVars, discountVars, workerPoolVars, resourceManagerVars>>

\* what the steps of one class leave alone: the variables of the other classes
notBank == <<counterVars, cacheVars, singletonVars, imageVars, cacheManagerVars, users36Vars, task42Vars, exceptionsVars, randomGeneratorVars, discountVars, workerPoolVars, resourceManagerVars>>
notCounter == <<bankVars, cacheVars, singletonVars, imageVars, cacheManagerVars, users36Vars, task42Vars, exceptionsVars, randomGeneratorVars, discountVars, workerPoolVars, resourceManagerVars>>
notCache == <<bankVars, counterVars, singletonVars, imageVars, cacheManagerVars, users36Vars, task42Vars, exceptionsVars, randomGeneratorVars, discountVars, workerPoolVars, resourceManagerVars>>
notSingleton == <<bankVars, counterVars, cacheVars, imageVars, cacheManagerVars, users36Vars, task42Vars, exceptionsVars, randomGeneratorVars, discountVars, workerPoolVars, resourceManagerVars>>
notImage == <<bankVars, counterVars, cacheVars, singletonVars, cacheManagerVars, users36Vars, task42Vars, exceptionsVars, randomGeneratorVars, discountVars, workerPoolVars, resourceManagerVars>>
notCacheManager == <<bankVars, counterVars, cacheVars, singletonVars, imageVars, users36Vars, task42Vars, exceptionsVars, randomGeneratorVars, discountVars, workerPoolVars, resourceManagerVars>>
notUsers36 == <<bankVars, counterVars, cacheVars, singletonVars, imageVars, cacheManagerVars, task42Vars, exceptionsVars, randomGeneratorVars, discountVars, workerPoolVars, resourceManagerVars>>
notTask42 == <<bankVars, counterVars, cacheVars, singletonVars, imageVars, cacheManagerVars, users36Vars, exceptionsVars, randomGeneratorVars, discountVars, workerPoolVars, resourceManagerVars>>
notExceptions == <<bankVars, counterVars, cacheVars, singletonVars, imageVars, cacheManagerVars, users36Vars, task42Vars, randomGeneratorVars, discountVars, workerPoolVars, resourceManagerVars>>
notRandomGenerator == <<bankVars, counterVars, cacheVars, singletonVars, imageVars, cacheManagerVars, users36Vars, task42Vars, exceptionsVars, discountVars, workerPoolVars, resourceManagerVars>>
notDiscount == <<bankVars, counterVars, cacheVars, singletonVars, imageVars, cacheManagerVars, users36Vars, task42Vars, exceptionsVars, randomGeneratorVars, workerPoolVars, resourceManagerVars>>
notWorkerPool == <<bankVars, counterVars, cacheVars, singletonVars, imageVars, cacheManagerVars, users36Vars, task42Vars, exceptionsVars, randomGeneratorVars, discountVars, resourceManagerVars>>
notResourceManager == <<bankVars, counterVars, cacheVars, singletonVars, imageVars, cacheManagerVars, users36Vars, task42Vars, exceptionsVars, randomGeneratorVars, discountVars, workerPoolVars>>

(***************************************************************************)
(* Task_07 BankAccount.  main() starts, for each pair, one thread running  *)
(* deposit_task and one running withdraw_task, and joins them all.         *)
(***************************************************************************)
BankThreads == 1..(2 * BankPairs)
IsDepositor(t) == t % 2 = 1

BankInit ==
    /\ _balance = InitialBalance
    /\ bankPc = [t \in BankThreads |-> "call"]
    /\ current_balance = [t \in BankThreads |-> 0]
    /\ bankLeft = [t \in BankThreads |-> BankRounds]

\* deposit, line 47: current_balance = self._balance
DepositRead(t) ==
    /\ IsDepositor(t)
    /\ bankPc[t] = "call"
    /\ bankLeft[t] > 0
    /\ current_balance' = [current_balance EXCEPT ![t] = _balance]
    /\ bankPc' = [bankPc EXCEPT ![t] = "write"]
    /\ UNCHANGED <<_balance, bankLeft>>
    /\ UNCHANGED notBank

\* deposit, line 49: self._balance = current_balance + amount
DepositWrite(t) ==
    /\ IsDepositor(t)
    /\ bankPc[t] = "write"
    /\ _balance' = current_balance[t] + Amount
    /\ bankPc' = [bankPc EXCEPT ![t] = "call"]
    /\ bankLeft' = [bankLeft EXCEPT ![t] = @ - 1]
    /\ UNCHANGED current_balance
    /\ UNCHANGED notBank

\* withdraw, line 54: if self._balance >= amount (else return False)
WithdrawCheck(t) ==
    /\ ~IsDepositor(t)
    /\ bankPc[t] = "call"
    /\ bankLeft[t] > 0
    /\ IF _balance >= Amount
         THEN /\ bankPc' = [bankPc EXCEPT ![t] = "read"]
              /\ UNCHANGED bankLeft
         ELSE /\ bankLeft' = [bankLeft EXCEPT ![t] = @ - 1]
              /\ UNCHANGED bankPc
    /\ UNCHANGED <<_balance, current_balance>>
    /\ UNCHANGED notBank

\* withdraw, line 55: current_balance = self._balance
WithdrawRead(t) ==
    /\ ~IsDepositor(t)
    /\ bankPc[t] = "read"
    /\ current_balance' = [current_balance EXCEPT ![t] = _balance]
    /\ bankPc' = [bankPc EXCEPT ![t] = "write"]
    /\ UNCHANGED <<_balance, bankLeft>>
    /\ UNCHANGED notBank

\* withdraw, line 57: self._balance = current_balance - amount
WithdrawWrite(t) ==
    /\ ~IsDepositor(t)
    /\ bankPc[t] = "write"
    /\ _balance' = current_balance[t] - Amount
    /\ bankPc' = [bankPc EXCEPT ![t] = "call"]
    /\ bankLeft' = [bankLeft EXCEPT ![t] = @ - 1]
    /\ UNCHANGED current_balance
    /\ UNCHANGED notBank

\* every thread of main() has run to its end, so every join has returned
BankJoined == \A t \in BankThreads : bankLeft[t] = 0 /\ bankPc[t] = "call"

(***************************************************************************)
(* Task_07 Counter.  main() starts the threads, each running               *)
(* counter_operations: increment() then decrement(), CounterRounds times.  *)
(***************************************************************************)
CntThreads == 1..CounterThreads

CounterInit ==
    /\ _value = 0
    /\ cntPc = [t \in CntThreads |-> "inc_read"]
    /\ current = [t \in CntThreads |-> 0]
    /\ cntLeft = [t \in CntThreads |-> CounterRounds]
    /\ incDone = 0
    /\ decDone = 0

\* increment, line 246: current = self._value
IncrementRead(t) ==
    /\ cntPc[t] = "inc_read"
    /\ cntLeft[t] > 0
    /\ current' = [current EXCEPT ![t] = _value]
    /\ cntPc' = [cntPc EXCEPT ![t] = "inc_write"]
    /\ UNCHANGED <<_value, cntLeft, incDone, decDone>>
    /\ UNCHANGED notCounter

\* increment, line 248: self._value = current + 1
IncrementWrite(t) ==
    /\ cntPc[t] = "inc_write"
    /\ _value' = current[t] + 1
    /\ cntPc' = [cntPc EXCEPT ![t] = "dec_read"]
    /\ incDone' = incDone + 1
    /\ UNCHANGED <<current, cntLeft, decDone>>
    /\ UNCHANGED notCounter

\* decrement, line 253: current = self._value
DecrementRead(t) ==
    /\ cntPc[t] = "dec_read"
    /\ current' = [current EXCEPT ![t] = _value]
    /\ cntPc' = [cntPc EXCEPT ![t] = "dec_write"]
    /\ UNCHANGED <<_value, cntLeft, incDone, decDone>>
    /\ UNCHANGED notCounter

\* decrement, line 255: self._value = current - 1
DecrementWrite(t) ==
    /\ cntPc[t] = "dec_write"
    /\ _value' = current[t] - 1
    /\ cntPc' = [cntPc EXCEPT ![t] = "inc_read"]
    /\ cntLeft' = [cntLeft EXCEPT ![t] = @ - 1]
    /\ decDone' = decDone + 1
    /\ UNCHANGED <<current, incDone>>
    /\ UNCHANGED notCounter

\* every thread of main() has run to its end, so every join has returned
CounterJoined == \A t \in CntThreads : cntLeft[t] = 0 /\ cntPc[t] = "inc_read"

(***************************************************************************)
(* Task_07 Cache.  Threads call get, set and clear in any order, up to     *)
(* CacheMaxCalls calls each.  A dict is a function from the keys to a      *)
(* value or Absent.  One dict operation is atomic (the interpreter lock);  *)
(* between two of them any other thread may run.                           *)
(***************************************************************************)
CacheThreads == 1..CacheThreadCount
CacheKeys == {"a", "b"}
CacheValues == 1..CacheMaxValue
\* the mark of a key that is not in a dict (no value and no count is negative)
Absent == -1
NoCall == [op |-> "none"]
EmptyDict == [k \in CacheKeys |-> Absent]

CacheInit ==
    /\ _cache = EmptyDict
    /\ _access_count = EmptyDict
    /\ _lock = 0
    /\ cachePc = [t \in CacheThreads |-> "idle"]
    /\ cacheCall = [t \in CacheThreads |-> NoCall]
    /\ cacheTmp = [t \in CacheThreads |-> 0]
    /\ cacheHist = [t \in CacheThreads |-> <<>>]

\* a thread that is between two calls and may make another one
CacheCanCall(t) == cachePc[t] = "idle" /\ Len(cacheHist[t]) < CacheMaxCalls

\* the call returns (or raises): the thread is between two calls again
CacheReturn(t, pc) ==
    /\ cachePc' = [cachePc EXCEPT ![t] = pc]
    /\ cacheCall' = [cacheCall EXCEPT ![t] = NoCall]

\* dict.get(key, 0)
DictGet(d, k, default) == IF d[k] = Absent THEN default ELSE d[k]

\* get, line 111: if key in self._cache (else line 114: return None)
CacheGetCheck(t, k) ==
    /\ CacheCanCall(t)
    /\ cacheHist' = [cacheHist EXCEPT ![t] = Append(@, [op |-> "get", key |-> k])]
    /\ IF _cache[k] # Absent
         THEN /\ cachePc' = [cachePc EXCEPT ![t] = "get_read"]
              /\ cacheCall' = [cacheCall EXCEPT ![t] = [op |-> "get", key |-> k]]
         ELSE UNCHANGED <<cachePc, cacheCall>>
    /\ UNCHANGED <<_cache, _access_count, _lock, cacheTmp>>
    /\ UNCHANGED notCache

\* get, line 112, right-hand side: self._access_count.get(key, 0)
CacheGetRead(t) ==
    /\ cachePc[t] = "get_read"
    /\ cacheTmp' = [cacheTmp EXCEPT ![t] = DictGet(_access_count, cacheCall[t].key, 0)]
    /\ cachePc' = [cachePc EXCEPT ![t] = "get_write"]
    /\ UNCHANGED <<_cache, _access_count, _lock, cacheCall, cacheHist>>
    /\ UNCHANGED notCache

\* get, line 112, the store: self._access_count[key] = ... + 1
CacheGetWrite(t) ==
    /\ cachePc[t] = "get_write"
    /\ _access_count' = [_access_count EXCEPT ![cacheCall[t].key] = cacheTmp[t] + 1]
    /\ cachePc' = [cachePc EXCEPT ![t] = "get_return"]
    /\ UNCHANGED <<_cache, _lock, cacheCall, cacheTmp, cacheHist>>
    /\ UNCHANGED notCache

\* get, line 113: return self._cache[key]; a key cleared meanwhile raises
\* KeyError, which nothing catches: the thread ends
CacheGetReturn(t) ==
    /\ cachePc[t] = "get_return"
    /\ CacheReturn(t, IF _cache[cacheCall[t].key] = Absent THEN "raised" ELSE "idle")
    /\ UNCHANGED <<_cache, _access_count, _lock, cacheTmp, cacheHist>>
    /\ UNCHANGED notCache

\* set, line 119: with self._lock (acquire)
CacheSetAcquire(t, k, v) ==
    /\ CacheCanCall(t)
    /\ _lock = 0
    /\ _lock' = t
    /\ cacheHist' = [cacheHist EXCEPT
           ![t] = Append(@, [op |-> "set", key |-> k, value |-> v])]
    /\ cacheCall' = [cacheCall EXCEPT ![t] = [op |-> "set", key |-> k, value |-> v]]
    /\ cachePc' = [cachePc EXCEPT ![t] = "set_store"]
    /\ UNCHANGED <<_cache, _access_count, cacheTmp>>
    /\ UNCHANGED notCache

\* set, line 120: self._cache[key] = value
CacheSetStore(t) ==
    /\ cachePc[t] = "set_store"
    /\ _cache' = [_cache EXCEPT ![cacheCall[t].key] = cacheCall[t].value]
    /\ cachePc' = [cachePc EXCEPT ![t] = "set_release"]
    /\ UNCHANGED <<_access_count, _lock, cacheCall, cacheTmp, cacheHist>>
    /\ UNCHANGED notCache

\* set, end of the with block: the lock is released
CacheSetRelease(t) ==
    /\ cachePc[t] = "set_release"
    /\ _lock' = 0
    /\ cachePc' = [cachePc EXCEPT ![t] = "set_count"]
    /\ UNCHANGED <<_cache, _access_count, cacheCall, cacheTmp, cacheHist>>
    /\ UNCHANGED notCache

\* set, line 121: self._access_count[key] = 0, outside the lock
CacheSetCount(t) ==
    /\ cachePc[t] = "set_count"
    /\ _access_count' = [_access_count EXCEPT ![cacheCall[t].key] = 0]
    /\ CacheReturn(t, "idle")
    /\ UNCHANGED <<_cache, _lock, cacheTmp, cacheHist>>
    /\ UNCHANGED notCache

\* clear, line 126: with self._lock (acquire)
CacheClearAcquire(t) ==
    /\ CacheCanCall(t)
    /\ _lock = 0
    /\ _lock' = t
    /\ cacheHist' = [cacheHist EXCEPT ![t] = Append(@, [op |-> "clear"])]
    /\ cacheCall' = [cacheCall EXCEPT ![t] = [op |-> "clear"]]
    /\ cachePc' = [cachePc EXCEPT ![t] = "clear_clear"]
    /\ UNCHANGED <<_cache, _access_count, cacheTmp>>
    /\ UNCHANGED notCache

\* clear, line 127: self._cache.clear()
CacheClearClear(t) ==
    /\ cachePc[t] = "clear_clear"
    /\ _cache' = EmptyDict
    /\ cachePc' = [cachePc EXCEPT ![t] = "clear_release"]
    /\ UNCHANGED <<_access_count, _lock, cacheCall, cacheTmp, cacheHist>>
    /\ UNCHANGED notCache

\* clear, end of the with block: the lock is released
CacheClearRelease(t) ==
    /\ cachePc[t] = "clear_release"
    /\ _lock' = 0
    /\ CacheReturn(t, "idle")
    /\ UNCHANGED <<_cache, _access_count, cacheTmp, cacheHist>>
    /\ UNCHANGED notCache

\* no call is in progress
CacheQuiet == \A t \in CacheThreads : cachePc[t] \in {"idle", "raised"}

(***************************************************************************)
(* One call run alone, from start to end, on the pair of dicts st:         *)
(* what get, set and clear do when no other thread runs in between.        *)
(***************************************************************************)
CacheAlone(st, c) ==
    CASE c.op = "get" ->
           IF st.cache[c.key] # Absent
             THEN [st EXCEPT !.count[c.key] = DictGet(st.count, c.key, 0) + 1]
             ELSE st
      [] c.op = "set" ->
           [cache |-> [st.cache EXCEPT ![c.key] = c.value],
            count |-> [st.count EXCEPT ![c.key] = 0]]
      [] c.op = "clear" ->
           [st EXCEPT !.cache = EmptyDict]

\* the states the calls of h reach when they run one at a time, in any
\* order that keeps each thread's calls in the order the thread made them
RECURSIVE CacheSerial(_, _)
CacheSerial(h, st) ==
    IF \A t \in DOMAIN h : h[t] = <<>>
      THEN {st}
      ELSE UNION { CacheSerial([h EXCEPT ![t] = Tail(@)], CacheAlone(st, Head(h[t]))) :
                     t \in {u \in DOMAIN h : h[u] # <<>>} }

(***************************************************************************)
(* Task_16 DatabaseConnection.  DatabaseConnection() runs __new__(cls) and *)
(* then __init__ on the object __new__ returned.  Objects are numbered in  *)
(* the order they are created.                                             *)
(***************************************************************************)
DbThreads == 1..DbThreadCount
NoObject == 0

SingletonInit ==
    /\ _instance = NoObject
    /\ dbCreated = 0
    /\ dbInitialized = {}
    /\ dbPc = [t \in DbThreads |-> "idle"]
    /\ dbSelf = [t \in DbThreads |-> NoObject]
    /\ dbReturned = [t \in DbThreads |-> <<>>]

\* __new__, line 52: if cls._instance is None
DbNewCheck(t) ==
    /\ dbPc[t] = "idle"
    /\ Len(dbReturned[t]) < DbMaxCalls
    /\ dbPc' = [dbPc EXCEPT ![t] = IF _instance = NoObject THEN "new_create" ELSE "new_return"]
    /\ UNCHANGED <<_instance, dbCreated, dbInitialized, dbSelf, dbReturned>>
    /\ UNCHANGED notSingleton

\* __new__, line 53: cls._instance = super().__new__(cls)
DbNewCreate(t) ==
    /\ dbPc[t] = "new_create"
    /\ dbCreated' = dbCreated + 1
    /\ _instance' = dbCreated + 1
    /\ dbPc' = [dbPc EXCEPT ![t] = "new_return"]
    /\ UNCHANGED <<dbInitialized, dbSelf, dbReturned>>
    /\ UNCHANGED notSingleton

\* __new__, line 54: return cls._instance
DbNewReturn(t) ==
    /\ dbPc[t] = "new_return"
    /\ dbSelf' = [dbSelf EXCEPT ![t] = _instance]
    /\ dbPc' = [dbPc EXCEPT ![t] = "init"]
    /\ UNCHANGED <<_instance, dbCreated, dbInitialized, dbReturned>>
    /\ UNCHANGED notSingleton

\* __init__, lines 58-60: if not self._initialized: ...; self._initialized = True
\* and the call returns the object
DbInit(t) ==
    /\ dbPc[t] = "init"
    /\ dbInitialized' = dbInitialized \cup {dbSelf[t]}
    /\ dbReturned' = [dbReturned EXCEPT ![t] = Append(@, dbSelf[t])]
    /\ dbPc' = [dbPc EXCEPT ![t] = "idle"]
    /\ UNCHANGED <<_instance, dbCreated, dbSelf>>
    /\ UNCHANGED notSingleton

\* the objects the calls made so far have returned
DbAllReturned == UNION { {dbReturned[t][i] : i \in DOMAIN dbReturned[t]} : t \in DbThreads }

(***************************************************************************)
(* Task_07 ImageProcessor.  The caller runs start_processing(paths) and    *)
(* then stop_processing().  Time is counted in ticks of 0.1 s.  A worker   *)
(* sleeps for random.uniform(0.1, 0.5) and then logs and ends; time.sleep  *)
(* and the scheduler bound its running time from below only.  A worker     *)
(* never reads _stop_event.  join(timeout=1.0) returns when the worker has *)
(* ended or when the timeout has passed.                                   *)
(***************************************************************************)
Workers == 1..ImageCount

ImageInit ==
    /\ imgNow = 0
    /\ _workers = <<>>
    /\ workerState = [w \in Workers |-> "new"]
    /\ workerWake = [w \in Workers |-> 0]
    /\ _stop_event = FALSE
    /\ imgPc = "start"
    /\ imgJoin = 0
    /\ imgDeadline = 0

\* time passes
ImgTick ==
    /\ imgNow < ImgMaxTime
    /\ imgNow' = imgNow + 1
    /\ UNCHANGED <<_workers, workerState, workerWake, _stop_event, imgPc, imgJoin, imgDeadline>>
    /\ UNCHANGED notImage

\* start_processing, lines 207-215: one round of the loop; the new worker
\* enters _process_image and sleeps, line 222
ImgStartWorker(d) ==
    /\ imgPc = "start"
    /\ Len(_workers) < ImageCount
    /\ LET w == Len(_workers) + 1 IN
         /\ _workers' = Append(_workers, w)
         /\ workerState' = [workerState EXCEPT ![w] = "running"]
         /\ workerWake' = [workerWake EXCEPT ![w] = imgNow + d]
    /\ UNCHANGED <<imgNow, _stop_event, imgPc, imgJoin, imgDeadline>>
    /\ UNCHANGED notImage

\* _process_image, lines 223-225: the sleep is over, the worker logs and ends
ImgWorkerFinish(w) ==
    /\ workerState[w] = "running"
    /\ imgNow >= workerWake[w]
    /\ workerState' = [workerState EXCEPT ![w] = "finished"]
    /\ UNCHANGED <<imgNow, _workers, workerWake, _stop_event, imgPc, imgJoin, imgDeadline>>
    /\ UNCHANGED notImage

\* the caller moves on to worker i of _workers, or returns after the last
ImgJoinNext(i) ==
    IF i <= Len(_workers)
      THEN /\ imgPc' = "join"
           /\ imgJoin' = i
           /\ imgDeadline' = imgNow + JoinTimeout
      ELSE /\ imgPc' = "returned"
           /\ UNCHANGED <<imgJoin, imgDeadline>>

\* stop_processing, line 230: self._stop_event.set(), and the loop begins
ImgStopSet ==
    /\ imgPc = "start"
    /\ _stop_event' = TRUE
    /\ ImgJoinNext(1)
    /\ UNCHANGED <<imgNow, _workers, workerState, workerWake>>
    /\ UNCHANGED notImage

\* stop_processing, line 232: worker.join(timeout=1.0) returns
ImgJoinReturn ==
    /\ imgPc = "join"
    /\ \/ workerState[_workers[imgJoin]] = "finished"
       \/ imgNow >= imgDeadline
    /\ ImgJoinNext(imgJoin + 1)
    /\ UNCHANGED <<imgNow, _workers, workerState, workerWake, _stop_event>>
    /\ UNCHANGED notImage

(***************************************************************************)
(* Task_06 CacheManager, called by one thread.  Every random.random() is   *)
(* an input of the step: the outcome of its comparison.                    *)
(***************************************************************************)
CmKeys == {"a", "b"}
CmValues == 1..CmMaxValue
PyNone == Absent
CmEmpty == [k \in CmKeys |-> Absent]

CacheManagerInit ==
    /\ cm_cache = CmEmpty
    /\ _last_cleanup = 0
    /\ cmNow = 0
    /\ cmPending = CmEmpty
    /\ cmLast = [op |-> "none"]

\* time passes between two calls
CmTick ==
    /\ cmNow < CmMaxTicks * CmStep
    /\ cmNow' = cmNow + CmStep
    /\ UNCHANGED <<cm_cache, _last_cleanup, cmPending, cmLast>>
    /\ UNCHANGED notCacheManager

\* the keys of dict d
CmPresent(d) == {k \in CmKeys : d[k] # Absent}

\* _cleanup, lines 249-254: the keys in expired are deleted
CmCleanup(d, expired) == [k \in CmKeys |-> IF k \in expired THEN Absent ELSE d[k]]

\* get, lines 225-235.  expired: the keys _cleanup draws below 0.2;
\* expire: the draw of line 231 is below 0.1
CmGet(key, expired, expire) ==
    LET due == cmNow - _last_cleanup > CleanupInterval
        cleaned == IF due THEN CmCleanup(cm_cache, expired) ELSE cm_cache
        hit == cleaned[key] # Absent
        ret == IF hit /\ ~expire THEN cleaned[key] ELSE PyNone
    IN  /\ expired \subseteq CmPresent(cm_cache)
        /\ ~due => expired = {}
        /\ ~hit => ~expire
        /\ _last_cleanup' = IF due THEN cmNow ELSE _last_cleanup
        /\ cm_cache' = IF hit /\ expire THEN [cleaned EXCEPT ![key] = Absent] ELSE cleaned
        /\ cmLast' = [op |-> "get", key |-> key, ret |-> ret, expect |-> cmPending[key]]
        /\ cmPending' = [cmPending EXCEPT ![key] = Absent]
        /\ UNCHANGED cmNow
        /\ UNCHANGED notCacheManager

\* set, lines 240-243.  miss: the draw of line 240 is below 0.05
CmSet(key, value, miss) ==
    /\ cm_cache' = IF miss THEN cm_cache ELSE [cm_cache EXCEPT ![key] = value]
    /\ cmPending' = [cmPending EXCEPT ![key] = value]
    /\ cmLast' = [op |-> "set", key |-> key, value |-> value]
    /\ UNCHANGED <<_last_cleanup, cmNow>>
    /\ UNCHANGED notCacheManager

(***************************************************************************)
(* Python values that must not be mixed up: the int n and the string       *)
(* str(n) are different values and never compare equal.                    *)
(***************************************************************************)
PyInt(n) == <<"int", n>>
Str(n) == <<"str", n>>

(***************************************************************************)
(* Task_36 UserManager.  random.randint(1, 1000000) is an input of the     *)
(* step, drawn from 1..RandIdMax.  A user is a dict object: the manager    *)
(* stores the object its caller passed, not a copy, so one object can be   *)
(* stored under several ids and update_user changes it in place.  An       *)
(* object is its position in umHeap; umHeap[o] holds its items.            *)
(***************************************************************************)
None == <<"None">>
RandInts == 1..RandIdMax
UserIds == {Str(n) : n \in RandInts}
UmFields == {"name", "email"}
UmValues == 1..Um36MaxData
\* the dicts over UmFields, the empty one and those lacking a field included
PyDicts == UNION {[S -> UmValues] : S \in SUBSET UmFields}
\* the dict objects there can be; those made so far are DOMAIN umHeap
UserData == 1..Um36MaxDicts

Users36Init ==
    /\ users = [i \in UserIds |-> Absent]
    /\ umHeap = <<>>
    /\ addHist = <<>>
    /\ umOther = 0
    /\ umLast = [op |-> "none", ret |-> None]

\* the calls made on the manager so far, bounded by Um36MaxCalls
Um36Calls == Len(addHist) + umOther

\* the caller builds a user dict, as setUp and test_add_user do
NewUserData(items) ==
    /\ Len(umHeap) < Um36MaxDicts
    /\ umHeap' = Append(umHeap, items)
    /\ UNCHANGED <<users, addHist, umOther, umLast>>
    /\ UNCHANGED notUsers36

\* add_user, lines 132-134
add_user(user_data, rnd) ==
    LET user_id == Str(rnd) IN
    /\ Um36Calls < Um36MaxCalls
    /\ user_data \in DOMAIN umHeap
    /\ users' = [users EXCEPT ![user_id] = user_data]
    /\ addHist' = Append(addHist,
           [id |-> user_id, data |-> user_data, items |-> umHeap[user_data],
            fresh |-> users[user_id] = Absent])
    /\ umLast' = [op |-> "add_user", ret |-> user_id]
    /\ UNCHANGED <<umHeap, umOther>>
    /\ UNCHANGED notUsers36

\* dict.update: the items of updates are stored, the other items of old stay
DictUpdate(old, updates) ==
    [f \in (DOMAIN old) \cup (DOMAIN updates) |->
        IF f \in DOMAIN updates THEN updates[f] ELSE old[f]]

\* update_user, lines 140-143
update_user(user_id, updates) ==
    /\ Um36Calls < Um36MaxCalls
    /\ IF users[user_id] # Absent
         THEN /\ umHeap' = [umHeap EXCEPT ![users[user_id]] = DictUpdate(@, updates)]
              /\ umLast' = [op |-> "update_user", ret |-> <<"bool", TRUE>>]
         ELSE /\ UNCHANGED umHeap
              /\ umLast' = [op |-> "update_user", ret |-> <<"bool", FALSE>>]
    /\ umOther' = umOther + 1
    /\ UNCHANGED <<users, addHist>>
    /\ UNCHANGED notUsers36

\* delete_user, lines 149-150
delete_user(user_id) ==
    /\ Um36Calls < Um36MaxCalls
    /\ users' = IF users[user_id] # Absent
                  THEN [users EXCEPT ![user_id] = Absent]
                  ELSE users
    /\ umLast' = [op |-> "delete_user", ret |-> None]
    /\ umOther' = umOther + 1
    /\ UNCHANGED <<umHeap, addHist>>
    /\ UNCHANGED notUsers36

(***************************************************************************)
(* Task_42 UserManager and OrderManager, called by one thread.  DATABASE   *)
(* is sqlite3.connect(":memory:"); no statement of the file creates a      *)
(* table.  The outcome of a call is [returned |-> value] or                *)
(* [raised |-> exception class].  A dict is a record.                      *)
(***************************************************************************)
Emails == {"john@example.com", "jane@example.com"}
\* the id field of an order: the test passes a string, main() an int
OrderIds == {Str(n) : n \in 1..T42MaxOrderId} \cup {PyInt(n) : n \in 1..T42MaxOrderId}

\* the attributes class UserManager defines, lines 85-122
UserManagerAttrs == {"_instance", "__new__", "__init__", "validate_user"}

Task42Init ==
    /\ dbTables = {}
    /\ dbOrders = {}
    /\ loggedErrors = 0
    /\ t42Calls = <<>>

T42Record(call, arg, outcome) ==
    t42Calls' = Append(t42Calls, [call |-> call, arg |-> arg, outcome |-> outcome])

\* self.manager.create_user(user), lines 211, 232, 238: UserManager has no
\* attribute create_user, the attribute lookup raises AttributeError
create_user(email) ==
    /\ Len(t42Calls) < T42MaxCalls
    /\ "create_user" \notin UserManagerAttrs
    /\ T42Record("create_user", email, [raised |-> "AttributeError"])
    /\ UNCHANGED <<dbTables, dbOrders, loggedErrors>>
    /\ UNCHANGED notTask42

\* validate_user, lines 113-122: the SELECT raises when there is no table
\* users; the error is logged and the result is False
validate_user(email) ==
    /\ Len(t42Calls) < T42MaxCalls
    /\ IF "users" \in dbTables
         THEN /\ T42Record("validate_user", email, [returned |-> TRUE])
              /\ UNCHANGED loggedErrors
         ELSE /\ T42Record("validate_user", email, [returned |-> FALSE])
              /\ loggedErrors' = loggedErrors + 1
    /\ UNCHANGED <<dbTables, dbOrders>>
    /\ UNCHANGED notTask42

\* process_order, lines 139-159.  rnd: random.randint(1, 1000000)
process_order(order_data, rnd) ==
    LET order_id == Str(rnd) IN
    /\ Len(t42Calls) < T42MaxCalls
    /\ IF "orders" \in dbTables
         THEN /\ dbOrders' = dbOrders \cup {<<order_id, order_data>>}
              /\ T42Record("process_order", order_data,
                     [returned |-> [order_id |-> order_id, status |-> "processed"]])
              /\ UNCHANGED loggedErrors
         ELSE /\ T42Record("process_order", order_data,
                     [returned |-> [error |-> "no such table: orders"]])
              /\ loggedErrors' = loggedErrors + 1
              /\ UNCHANGED dbOrders
    /\ UNCHANGED dbTables
    /\ UNCHANGED notTask42

(***************************************************************************)
(* Task_08 exception classes, and a try statement: the exception is        *)
(* caught by the first except clause whose class it is an instance of.     *)
(***************************************************************************)
ExcRaisable == {"CustomError", "DatabaseError", "NetworkError", "ValidationError",
                "ValueError"}
ExcCatchable == ExcRaisable \cup {"Exception"}

\* the mistaken hierarchy: ValidationError(CustomError)
ExcBaseValidationIsCustom(c) ==
    CASE c = "CustomError" -> "Exception"
      [] c = "DatabaseError" -> "CustomError"
      [] c = "NetworkError" -> "CustomError"
      [] c = "ValidationError" -> "CustomError"
      [] c = "ValueError" -> "Exception"
      [] c = "Exception" -> "BaseException"
      [] OTHER -> "object"

\* the base class of class c, lines 38-53 (ValueError and Exception: builtins)
ExcBase(c) ==
    CASE c = "CustomError" -> "Exception"
      [] c = "DatabaseError" -> "CustomError"
      [] c = "NetworkError" -> "CustomError"
      [] c = "ValidationError" -> "Exception"
      [] c = "ValueError" -> "Exception"
      [] c = "Exception" -> "BaseException"
      [] OTHER -> "object"

\* issubclass(c, d)
RECURSIVE IsSubclass(_, _)
IsSubclass(c, d) ==
    \/ c = d
    \/ c # "object" /\ IsSubclass(ExcBase(c), d)

\* the first clause of hs that catches an exception of class e, 0 when none
FirstHandler(e, hs) ==
    LET matching == {i \in DOMAIN hs : IsSubclass(e, hs[i])} IN
    IF matching = {} THEN 0
    ELSE CHOOSE i \in matching : \A j \in matching : i <= j

ExceptionsInit ==
    /\ excPc = "ready"
    /\ excRaised = "none"
    /\ excHandlers = <<>>
    /\ excCaughtBy = 0

\* try: raise e(...) / except hs[1] / except hs[2] / ..., as in lines 361-366
ExcTry(e, hs) ==
    /\ excPc = "ready"
    /\ excRaised' = e
    /\ excHandlers' = hs
    /\ excCaughtBy' = FirstHandler(e, hs)
    /\ excPc' = IF FirstHandler(e, hs) = 0 THEN "propagated" ELSE "handled"
    /\ UNCHANGED notExceptions

(***************************************************************************)
(* Task_25 RandomGenerator.  random.randint(1000, 9999) is an input of the *)
(* step, drawn from GenIdMin .. GenIdMin + GenIdCount - 1.                 *)
(***************************************************************************)
GenDraws == GenIdMin..(GenIdMin + GenIdCount - 1)

\* f"ID_{n}": the text ID_ followed by the decimal digits of n
FormatId(n) == <<"ID_", n>>

RandomGeneratorInit == genIds = <<>>

\* generate_id, line 219
generate_id(rnd) ==
    /\ Len(genIds) < GenMaxCalls
    /\ genIds' = Append(genIds, FormatId(rnd))
    /\ UNCHANGED notRandomGenerator

(***************************************************************************)
(* Task_01 calculate_discount, called with whole numbers.                  *)
(***************************************************************************)
\* calculate_discount, line 26: return price - discount_percentage
calculate_discount(price, discount_percentage) == price - discount_percentage

DiscountInit ==
    /\ discPc = "ready"
    /\ discPrice = 0
    /\ discPct = 0
    /\ discResult = 0

\* one call, as in line 66
DiscCall(price, pct) ==
    /\ discPc = "ready"
    /\ discPrice' = price
    /\ discPct' = pct
    /\ discResult' = calculate_discount(price, pct)
    /\ discPc' = "returned"
    /\ UNCHANGED notDiscount

(***************************************************************************)
(* Task_07 WorkerPool.  One thread calls submit_task PoolTasks times, as   *)
(* main() does; the executor has PoolMaxWorkers threads that take the      *)
(* queued futures in order.  A future's done-callbacks run in the executor *)
(* thread that finished the task, or at once in the thread that calls      *)
(* add_done_callback when the future is finished already.                  *)
(***************************************************************************)
Futures == 1..PoolTasks
PoolWorkers == 1..PoolMaxWorkers
MainThread == <<"main">>
WorkerThread(w) == <<"worker", w>>

WorkerPoolInit ==
    /\ poolLock = <<>>
    /\ _active_tasks = {}
    /\ futState = [f \in Futures |-> "none"]
    /\ futCallback = {}
    /\ poolPc = "acquire"
    /\ poolCall = 1
    /\ poolReturned = 0
    /\ wkPc = [w \in PoolWorkers |-> "idle"]
    /\ wkFut = [w \in PoolWorkers |-> 0]

\* len(self._active_tasks) >= self._executor._max_workers, lines 176 and 178
PoolFull == Cardinality(_active_tasks) >= PoolMaxWorkers

\* submit_task returns; the caller goes on to its next call, lines 397-398
SubmitReturn ==
    /\ poolReturned' = poolReturned + 1
    /\ IF poolCall < PoolTasks
         THEN poolCall' = poolCall + 1 /\ poolPc' = "acquire"
         ELSE poolPc' = "finished" /\ UNCHANGED poolCall

\* submit_task, line 175: with self._lock (acquire)
SubmitAcquire ==
    /\ poolPc = "acquire"
    /\ poolLock = <<>>
    /\ poolLock' = MainThread
    /\ poolPc' = "if"
    /\ UNCHANGED <<_active_tasks, futState, futCallback, poolCall, poolReturned, wkPc, wkFut>>
    /\ UNCHANGED notWorkerPool

\* submit_task, line 176: the if; when it fails the with block ends
SubmitIf ==
    /\ poolPc = "if"
    /\ IF PoolFull
         THEN poolPc' = "while" /\ UNCHANGED poolLock
         ELSE poolPc' = "submit" /\ poolLock' = <<>>
    /\ UNCHANGED <<_active_tasks, futState, futCallback, poolCall, poolReturned, wkPc, wkFut>>
    /\ UNCHANGED notWorkerPool

\* submit_task, line 178: the while test, with the lock still held
SubmitWhile ==
    /\ poolPc = "while"
    /\ IF PoolFull
         THEN poolPc' = "sleep" /\ UNCHANGED poolLock
         ELSE poolPc' = "submit" /\ poolLock' = <<>>
    /\ UNCHANGED <<_active_tasks, futState, futCallback, poolCall, poolReturned, wkPc, wkFut>>
    /\ UNCHANGED notWorkerPool

\* submit_task, line 179: time.sleep(0.1) is over
SubmitSleep ==
    /\ poolPc = "sleep"
    /\ poolPc' = "while"
    /\ UNCHANGED <<poolLock, _active_tasks, futState, futCallback, poolCall, poolReturned, wkPc, wkFut>>
    /\ UNCHANGED notWorkerPool

\* submit_task, line 181: future = self._executor.submit(...)
SubmitToExecutor ==
    /\ poolPc = "submit"
    /\ futState' = [futState EXCEPT ![poolCall] = "queued"]
    /\ poolPc' = "add_acquire"
    /\ UNCHANGED <<poolLock, _active_tasks, futCallback, poolCall, poolReturned, wkPc, wkFut>>
    /\ UNCHANGED notWorkerPool

\* submit_task, line 182: with self._lock (acquire)
SubmitAddAcquire ==
    /\ poolPc = "add_acquire"
    /\ poolLock = <<>>
    /\ poolLock' = MainThread
    /\ poolPc' = "add"
    /\ UNCHANGED <<_active_tasks, futState, futCallback, poolCall, poolReturned, wkPc, wkFut>>
    /\ UNCHANGED notWorkerPool

\* submit_task, line 183: self._active_tasks.add(future), the with block ends
SubmitAdd ==
    /\ poolPc = "add"
    /\ _active_tasks' = _active_tasks \cup {poolCall}
    /\ poolLock' = <<>>
    /\ poolPc' = "callback"
    /\ UNCHANGED <<futState, futCallback, poolCall, poolReturned, wkPc, wkFut>>
    /\ UNCHANGED notWorkerPool

\* submit_task, line 186: future.add_done_callback(self._task_done)
SubmitAddDoneCallback ==
    /\ poolPc = "callback"
    /\ IF futState[poolCall] = "finished"
         THEN /\ poolPc' = "done_acquire"
              /\ UNCHANGED <<futCallback, poolCall, poolReturned>>
         ELSE /\ futCallback' = futCallback \cup {poolCall}
              /\ SubmitReturn
    /\ UNCHANGED <<poolLock, _active_tasks, futState, wkPc, wkFut>>
    /\ UNCHANGED notWorkerPool

\* _task_done run by the submitting thread, line 191: with self._lock
SubmitDoneAcquire ==
    /\ poolPc = "done_acquire"
    /\ poolLock = <<>>
    /\ poolLock' = MainThread
    /\ poolPc' = "done_discard"
    /\ UNCHANGED <<_active_tasks, futState, futCallback, poolCall, poolReturned, wkPc, wkFut>>
    /\ UNCHANGED notWorkerPool

\* _task_done run by the submitting thread, line 192, and submit_task returns
SubmitDoneDiscard ==
    /\ poolPc = "done_discard"
    /\ _active_tasks' = _active_tasks \ {poolCall}
    /\ poolLock' = <<>>
    /\ SubmitReturn
    /\ UNCHANGED <<futState, futCallback, wkPc, wkFut>>
    /\ UNCHANGED notWorkerPool

\* an idle executor thread takes the oldest queued future and runs its task
WorkerTake(w) ==
    /\ wkPc[w] = "idle"
    /\ \E f \in Futures :
         /\ futState[f] = "queued"
         /\ \A g \in Futures : futState[g] = "queued" => f <= g
         /\ futState' = [futState EXCEPT ![f] = "running"]
         /\ wkFut' = [wkFut EXCEPT ![w] = f]
    /\ wkPc' = [wkPc EXCEPT ![w] = "run"]
    /\ UNCHANGED <<poolLock, _active_tasks, futCallback, poolPc, poolCall, poolReturned>>
    /\ UNCHANGED notWorkerPool

\* the task function returns: the future is finished, and its registered
\* callback is run by this thread
TaskFinish(w) ==
    /\ wkPc[w] = "run"
    /\ futState' = [futState EXCEPT ![wkFut[w]] = "finished"]
    /\ wkPc' = [wkPc EXCEPT ![w] = IF wkFut[w] \in futCallback THEN "cb_acquire" ELSE "idle"]
    /\ UNCHANGED <<poolLock, _active_tasks, futCallback, poolPc, poolCall, poolReturned, wkFut>>
    /\ UNCHANGED notWorkerPool

\* _task_done run by an executor thread, line 191: with self._lock
TaskDoneAcquire(w) ==
    /\ wkPc[w] = "cb_acquire"
    /\ poolLock = <<>>
    /\ poolLock' = WorkerThread(w)
    /\ wkPc' = [wkPc EXCEPT ![w] = "cb_discard"]
    /\ UNCHANGED <<_active_tasks, futState, futCallback, poolPc, poolCall, poolReturned, wkFut>>
    /\ UNCHANGED notWorkerPool

\* _task_done run by an executor thread, line 192: discard, the with block ends
TaskDoneDiscard(w) ==
    /\ wkPc[w] = "cb_discard"
    /\ _active_tasks' = _active_tasks \ {wkFut[w]}
    /\ poolLock' = <<>>
    /\ wkPc' = [wkPc EXCEPT ![w] = "idle"]
    /\ UNCHANGED <<futState, futCallback, poolPc, poolCall, poolReturned, wkFut>>
    /\ UNCHANGED notWorkerPool

\* the steps of the submitting thread, and those of one executor thread
PoolMainNext ==
    \/ SubmitAcquire
    \/ SubmitIf
    \/ SubmitWhile
    \/ SubmitSleep
    \/ SubmitToExecutor
    \/ SubmitAddAcquire
    \/ SubmitAdd
    \/ SubmitAddDoneCallback
    \/ SubmitDoneAcquire
    \/ SubmitDoneDiscard

PoolWorkerNext(w) ==
    \/ WorkerTake(w)
    \/ TaskFinish(w)
    \/ TaskDoneAcquire(w)
    \/ TaskDoneDiscard(w)

(***************************************************************************)
(* Task_07 ResourceManager.  RmThreadCount threads run acquire_resources   *)
(* of main() on one manager.  A step is one dictionary operation or one    *)
(* operation on a Lock; a thread switch can fall between any two.  A Lock  *)
(* belongs to no thread: release() by any thread unlocks it, and release() *)
(* of an unlocked Lock raises RuntimeError.  Lock.acquire() raises         *)
(* nothing, so the except branch of lines 87-89 is never taken.            *)
(***************************************************************************)
RmThreads == 1..RmThreadCount
RmResources == {"A", "B"}

\* acquire_resources of main(), lines 330-335
RmProgram ==
    << [op |-> "acquire", r |-> "A"], [op |-> "acquire", r |-> "B"],
       [op |-> "release", r |-> "B"], [op |-> "release", r |-> "A"] >>

ResourceManagerInit ==
    /\ _resources = [r \in RmResources |-> NoObject]
    /\ _resource_locks = [r \in RmResources |-> NoObject]
    /\ rmNextLock = 1
    /\ rmLocked = {}
    /\ rmPc = [t \in RmThreads |-> "call"]
    /\ rmCall = [t \in RmThreads |-> 1]
    /\ rmObj = [t \in RmThreads |-> NoObject]
    /\ rmHeld = [t \in RmThreads |-> {}]

\* the call thread t is in, and its resource_id
RmOp(t) == RmProgram[rmCall[t]].op
RmArg(t) == RmProgram[rmCall[t]].r

\* the call in progress returns and the thread goes on to its next call
RmReturn(t) ==
    /\ rmCall' = [rmCall EXCEPT ![t] = @ + 1]
    /\ rmPc' = [rmPc EXCEPT ![t] = IF rmCall[t] = Len(RmProgram) THEN "done" ELSE "call"]

\* the call in progress raises, nothing catches it and the thread ends
RmRaise(t) ==
    /\ rmPc' = [rmPc EXCEPT ![t] = "raised"]
    /\ UNCHANGED rmCall

\* acquire_resource, line 78: if resource_id not in self._resources
AcqCheck(t) ==
    /\ rmPc[t] = "call"
    /\ RmOp(t) = "acquire"
    /\ rmPc' = [rmPc EXCEPT ![t] =
                  IF _resources[RmArg(t)] = NoObject THEN "make_resource" ELSE "lookup_outer"]
    /\ UNCHANGED <<_resources, _resource_locks, rmNextLock, rmLocked, rmCall, rmObj, rmHeld>>
    /\ UNCHANGED notResourceManager

\* acquire_resource, line 79: self._resources[resource_id] = threading.Lock()
AcqMakeResource(t) ==
    /\ rmPc[t] = "make_resource"
    /\ _resources' = [_resources EXCEPT ![RmArg(t)] = rmNextLock]
    /\ rmNextLock' = rmNextLock + 1
    /\ rmPc' = [rmPc EXCEPT ![t] = "make_lock"]
    /\ UNCHANGED <<_resource_locks, rmLocked, rmCall, rmObj, rmHeld>>
    /\ UNCHANGED notResourceManager

\* acquire_resource, line 80: self._resource_locks[resource_id] = threading.Lock()
AcqMakeLock(t) ==
    /\ rmPc[t] = "make_lock"
    /\ _resource_locks' = [_resource_locks EXCEPT ![RmArg(t)] = rmNextLock]
    /\ rmNextLock' = rmNextLock + 1
    /\ rmPc' = [rmPc EXCEPT ![t] = "lookup_outer"]
    /\ UNCHANGED <<_resources, rmLocked, rmCall, rmObj, rmHeld>>
    /\ UNCHANGED notResourceManager

\* acquire_resource, line 83: self._resource_locks[resource_id], KeyError when absent
AcqLookupOuter(t) ==
    /\ rmPc[t] = "lookup_outer"
    /\ IF _resource_locks[RmArg(t)] = NoObject
         THEN RmRaise(t) /\ UNCHANGED rmObj
         ELSE /\ rmObj' = [rmObj EXCEPT ![t] = _resource_locks[RmArg(t)]]
              /\ rmPc' = [rmPc EXCEPT ![t] = "acquire_outer"]
              /\ UNCHANGED rmCall
    /\ UNCHANGED <<_resources, _resource_locks, rmNextLock, rmLocked, rmHeld>>
    /\ UNCHANGED notResourceManager

\* acquire_resource, line 83: .acquire() waits for the Lock to be unlocked
AcqOuter(t) ==
    /\ rmPc[t] = "acquire_outer"
    /\ rmObj[t] \notin rmLocked
    /\ rmLocked' = rmLocked \cup {rmObj[t]}
    /\ rmPc' = [rmPc EXCEPT ![t] = "lookup_inner"]
    /\ UNCHANGED <<_resources, _resource_locks, rmNextLock, rmCall, rmObj, rmHeld>>
    /\ UNCHANGED notResourceManager

\* acquire_resource, line 85: self._resources[resource_id]
AcqLookupInner(t) ==
    /\ rmPc[t] = "lookup_inner"
    /\ rmObj' = [rmObj EXCEPT ![t] = _resources[RmArg(t)]]
    /\ rmPc' = [rmPc EXCEPT ![t] = "acquire_inner"]
    /\ UNCHANGED <<_resources, _resource_locks, rmNextLock, rmLocked, rmCall, rmHeld>>
    /\ UNCHANGED notResourceManager

\* acquire_resource, lines 85-86: .acquire() waits, then return True
AcqInner(t) ==
    /\ rmPc[t] = "acquire_inner"
    /\ rmObj[t] \notin rmLocked
    /\ rmLocked' = rmLocked \cup {rmObj[t]}
    /\ rmHeld' = [rmHeld EXCEPT ![t] = @ \cup {RmArg(t)}]
    /\ RmReturn(t)
    /\ UNCHANGED <<_resources, _resource_locks, rmNextLock, rmObj>>
    /\ UNCHANGED notResourceManager

\* release_resource, line 94: if resource_id in self._resources
RelCheck(t) ==
    /\ rmPc[t] = "call"
    /\ RmOp(t) = "release"
    /\ rmHeld' = [rmHeld EXCEPT ![t] = @ \ {RmArg(t)}]
    /\ IF _resources[RmArg(t)] # NoObject
         THEN rmPc' = [rmPc EXCEPT ![t] = "lookup_resource"] /\ UNCHANGED rmCall
         ELSE RmReturn(t)
    /\ UNCHANGED <<_resources, _resource_locks, rmNextLock, rmLocked, rmObj>>
    /\ UNCHANGED notResourceManager

\* release_resource, line 95: self._resources[resource_id]
RelLookupResource(t) ==
    /\ rmPc[t] = "lookup_resource"
    /\ rmObj' = [rmObj EXCEPT ![t] = _resources[RmArg(t)]]
    /\ rmPc' = [rmPc EXCEPT ![t] = "release_resource"]
    /\ UNCHANGED <<_resources, _resource_locks, rmNextLock, rmLocked, rmCall, rmHeld>>
    /\ UNCHANGED notResourceManager

\* release_resource, line 95: .release(), RuntimeError when the Lock is unlocked
RelResource(t) ==
    /\ rmPc[t] = "release_resource"
    /\ IF rmObj[t] \in rmLocked
         THEN /\ rmLocked' = rmLocked \ {rmObj[t]}
              /\ rmPc' = [rmPc EXCEPT ![t] = "lookup_lock"]
              /\ UNCHANGED rmCall
         ELSE RmRaise(t) /\ UNCHANGED rmLocked
    /\ UNCHANGED <<_resources, _resource_locks, rmNextLock, rmObj, rmHeld>>
    /\ UNCHANGED notResourceManager

\* release_resource, line 96: self._resource_locks[resource_id], KeyError when absent
RelLookupLock(t) ==
    /\ rmPc[t] = "lookup_lock"
    /\ IF _resource_locks[RmArg(t)] = NoObject
         THEN RmRaise(t) /\ UNCHANGED rmObj
         ELSE /\ rmObj' = [rmObj EXCEPT ![t] = _resource_locks[RmArg(t)]]
              /\ rmPc' = [rmPc EXCEPT ![t] = "release_lock"]
              /\ UNCHANGED rmCall
    /\ UNCHANGED <<_resources, _resource_locks, rmNextLock, rmLocked, rmHeld>>
    /\ UNCHANGED notResourceManager

\* release_resource, line 96: .release(), RuntimeError when the Lock is unlocked
RelLock(t) ==
    /\ rmPc[t] = "release_lock"
    /\ IF rmObj[t] \in rmLocked
         THEN rmLocked' = rmLocked \ {rmObj[t]} /\ RmReturn(t)
         ELSE RmRaise(t) /\ UNCHANGED rmLocked
    /\ UNCHANGED <<_resources, _resource_locks, rmNextLock, rmObj, rmHeld>>
    /\ UNCHANGED notResourceManager

\* the steps of one thread
RmThreadNext(t) ==
    \/ AcqCheck(t)
    \/ AcqMakeResource(t)
    \/ AcqMakeLock(t)
    \/ AcqLookupOuter(t)
    \/ AcqOuter(t)
    \/ AcqLookupInner(t)
    \/ AcqInner(t)
    \/ RelCheck(t)
    \/ RelLookupResource(t)
    \/ RelResource(t)
    \/ RelLookupLock(t)
    \/ RelLock(t)

(***************************************************************************)
(* Specifications.                                                         *)
(***************************************************************************)
Init ==
    /\ BankInit
    /\ CounterInit
    /\ CacheInit
    /\ SingletonInit
    /\ ImageInit
    /\ CacheManagerInit
    /\ Users36Init
    /\ Task42Init
    /\ ExceptionsInit
    /\ RandomGeneratorInit
    /\ DiscountInit
    /\ WorkerPoolInit
    /\ ResourceManagerInit

BankNext ==
    \/ \E t \in BankThreads : DepositRead(t)
    \/ \E t \in BankThreads : DepositWrite(t)
    \/ \E t \in BankThreads : WithdrawCheck(t)
    \/ \E t \in BankThreads : WithdrawRead(t)
    \/ \E t \in BankThreads : WithdrawWrite(t)

CounterNext ==
    \/ \E t \in CntThreads : IncrementRead(t)
    \/ \E t \in CntThreads : IncrementWrite(t)
    \/ \E t \in CntThreads : DecrementRead(t)
    \/ \E t \in CntThreads : DecrementWrite(t)

CacheNext ==
    \/ \E t \in CacheThreads, k \in CacheKeys : CacheGetCheck(t, k)
    \/ \E t \in CacheThreads : CacheGetRead(t)
    \/ \E t \in CacheThreads : CacheGetWrite(t)
    \/ \E t \in CacheThreads : CacheGetReturn(t)
    \/ \E t \in CacheThreads, k \in CacheKeys, v \in CacheValues : CacheSetAcquire(t, k, v)
    \/ \E t \in CacheThreads : CacheSetStore(t)
    \/ \E t \in CacheThreads : CacheSetRelease(t)
    \/ \E t \in CacheThreads : CacheSetCount(t)
    \/ \E t \in CacheThreads : CacheClearAcquire(t)
    \/ \E t \in CacheThreads : CacheClearClear(t)
    \/ \E t \in CacheThreads : CacheClearRelease(t)

SingletonNext ==
    \/ \E t \in DbThreads : DbNewCheck(t)
    \/ \E t \in DbThreads : DbNewCreate(t)
    \/ \E t \in DbThreads : DbNewReturn(t)
    \/ \E t \in DbThreads : DbInit(t)

ImageNext ==
    \/ ImgTick
    \/ \E d \in SleepMin..SleepMax : ImgStartWorker(d)
    \/ \E w \in Workers : ImgWorkerFinish(w)
    \/ ImgStopSet
    \/ ImgJoinReturn

CacheManagerNext ==
    \/ CmTick
    \/ \E k \in CmKeys, x \in SUBSET CmKeys, e \in BOOLEAN : CmGet(k, x, e)
    \/ \E k \in CmKeys, v \in CmValues, m \in BOOLEAN : CmSet(k, v, m)

Users36Next ==
    \/ \E c \in PyDicts : NewUserData(c)
    \/ \E d \in UserData, r \in RandInts : add_user(d, r)
    \/ \E i \in UserIds, u \in PyDicts : update_user(i, u)
    \/ \E i \in UserIds : delete_user(i)

Task42Next ==
    \/ \E e \in Emails : create_user(e)
    \/ \E e \in Emails : validate_user(e)
    \/ \E i \in OrderIds, r \in RandInts : process_order([id |-> i], r)

ExceptionsNext ==
    \E e \in ExcRaisable, n \in 1..ExcMaxHandlers :
        \E hs \in [1..n -> ExcCatchable] : ExcTry(e, hs)

RandomGeneratorNext ==
    \E r \in GenDraws : generate_id(r)

DiscountNext ==
    \E p \in 0..DiscMaxPrice, d \in 0..DiscMaxPct : DiscCall(p, d)

WorkerPoolNext ==
    \/ PoolMainNext
    \/ \E w \in PoolWorkers : PoolWorkerNext(w)

ResourceManagerNext == \E t \in RmThreads : RmThreadNext(t)

SpecBank == Init /\ [][BankNext]_vars
SpecCounter == Init /\ [][CounterNext]_vars

SpecCache == Init /\ [][CacheNext]_vars
SpecSingleton == Init /\ [][SingletonNext]_vars
SpecImage == Init /\ [][ImageNext]_vars
SpecCacheManager == Init /\ [][CacheManagerNext]_vars
SpecUsers36 == Init /\ [][Users36Next]_vars
SpecTask42 == Init /\ [][Task42Next]_vars
SpecExceptions == Init /\ [][ExceptionsNext]_vars
SpecRandomGenerator == Init /\ [][RandomGeneratorNext]_vars
SpecDiscount == Init /\ [][DiscountNext]_vars
\* every thread that can take a step is scheduled in the end; with it every
\* task that was handed to the executor is run and finishes
SpecWorkerPool ==
    /\ Init
    /\ [][WorkerPoolNext]_vars
    /\ WF_vars(PoolMainNext)
    /\ \A w \in PoolWorkers : WF_vars(PoolWorkerNext(w))
\* every thread that can take a step is scheduled in the end
SpecResourceManager ==
    /\ Init
    /\ [][ResourceManagerNext]_vars
    /\ \A t \in RmThreads : WF_vars(RmThreadNext(t))

Next == BankNext \/ CounterNext \/ CacheNext \/ SingletonNext \/ ImageNext \/ CacheManagerNext \/ Users36Next \/ Task42Next \/ ExceptionsNext \/ RandomGeneratorNext \/ DiscountNext \/ WorkerPoolNext \/ ResourceManagerNext
Spec == Init /\ [][Next]_vars

(***************************************************************************)
(* C1: when the deposit threads and the withdrawal threads of main() have  *)
(* all finished, the balance is the opening balance again (every deposit   *)
(* of Amount is matched by a withdrawal of Amount).                        *)
(***************************************************************************)
C1_FinalBalanceIsInitial == BankJoined => _balance = InitialBalance

(***************************************************************************)
(* C2: when every call has returned, the counter's value is the number of  *)
(* increment calls minus the number of decrement calls; after the threads  *)
(* of main() have finished it is 0.                                        *)
(***************************************************************************)
C2_CounterCountsCalls ==
    /\ (\A t \in CntThreads : cntPc[t] \in {"inc_read", "dec_read"})
          => _value = incDone - decDone
    /\ CounterJoined => _value = 0

(***************************************************************************)
(* C3: whenever no call is in progress, the cached values and the access   *)
(* counts are a state that the calls made so far also reach when they run  *)
(* one at a time, each thread's calls in the order the thread made them.   *)
(***************************************************************************)
C3_CacheSerializable ==
    CacheQuiet =>
        [cache |-> _cache, count |-> _access_count]
            \in CacheSerial(cacheHist, [cache |-> EmptyDict, count |-> EmptyDict])

(***************************************************************************)
(* C4: DatabaseConnection is a singleton: at most one object is ever       *)
(* created, and all calls of DatabaseConnection(), from one thread or from *)
(* several, return the same object.                                        *)
(***************************************************************************)
C4_Singleton ==
    /\ dbCreated <= 1
    /\ Cardinality(DbAllReturned) <= 1

(***************************************************************************)
(* C5: once stop_processing has returned, no worker thread that            *)
(* start_processing started is still running.                              *)
(***************************************************************************)
C5_StopStopsWorkers ==
    imgPc = "returned" => \A w \in Workers : workerState[w] # "running"

(***************************************************************************)
(* C6: after set(key, value) has returned, the next get(key) returns       *)
(* value.                                                                  *)
(***************************************************************************)
C6_GetAfterSet ==
    (cmLast.op = "get" /\ cmLast.expect # Absent) => cmLast.ret = cmLast.expect

(***************************************************************************)
(* C7: every add_user call returns an id that was no key of users before   *)
(* the call, and after any sequence of add_user calls (no update_user or   *)
(* delete_user call among them) every user added is still stored under the *)
(* id its call returned.                                                   *)
(***************************************************************************)
C7_AddUserKeepsUsers ==
    \A i \in DOMAIN addHist :
        /\ addHist[i].fresh
        /\ umOther = 0 =>
              /\ users[addHist[i].id] = addHist[i].data
              /\ umHeap[addHist[i].data] = addHist[i].items

(***************************************************************************)
(* C8: a create_user call for an email that an earlier create_user call    *)
(* was made for (and so, by the first call's contract, has created)        *)
(* returns the error result "User already exists".                         *)
(***************************************************************************)
C8_DuplicateUserIsRefused ==
    \A i, j \in DOMAIN t42Calls :
        (/\ i < j
         /\ t42Calls[i].call = "create_user"
         /\ t42Calls[j].call = "create_user"
         /\ t42Calls[i].arg = t42Calls[j].arg)
        => t42Calls[j].outcome = [returned |-> [error |-> "User already exists"]]

(***************************************************************************)
(* C9: process_order(order) returns a result whose order_id is the id      *)
(* field of the order and whose status is "processed".                     *)
(***************************************************************************)
C9_ProcessOrderEchoesId ==
    \A j \in DOMAIN t42Calls :
        t42Calls[j].call = "process_order"
        => t42Calls[j].outcome =
               [returned |-> [order_id |-> t42Calls[j].arg.id, status |-> "processed"]]

(***************************************************************************)
(* C10: a raised ValidationError is caught by no except CustomError        *)
(* clause, and in try / except CustomError / except ValidationError it is  *)
(* caught by the second clause.                                            *)
(***************************************************************************)
C10_ValidationErrorSkipsCustomError ==
    (excPc # "ready" /\ excRaised = "ValidationError") =>
        /\ \A i \in DOMAIN excHandlers :
               excHandlers[i] = "CustomError" => excCaughtBy # i
        /\ excHandlers = <<"CustomError", "ValidationError">> => excCaughtBy = 2

C10_Witness ==
    /\ excPc = "handled"
    /\ excRaised = "ValidationError"
    /\ excHandlers = <<"CustomError", "ValidationError">>
    /\ excCaughtBy = 2

(***************************************************************************)
(* C11: any two calls of generate_id return different ids.                 *)
(***************************************************************************)
C11_IdsDiffer ==
    \A i, j \in DOMAIN genIds : i # j => genIds[i] # genIds[j]

(***************************************************************************)
(* C12: calculate_discount(price, pct) returns price * (1 - pct/100),      *)
(* stated without fractions as 100 * result = price * (100 - pct); in      *)
(* particular calculate_discount(100, 20) is 80.                           *)
(***************************************************************************)
C12_DiscountIsPercentage ==
    discPc = "returned" =>
        /\ 100 * discResult = discPrice * (100 - discPct)
        /\ (discPrice = 100 /\ discPct = 20) => discResult = 80

(***************************************************************************)
(* C13: when every thread that can run does run, and so every task handed  *)
(* to the executor finishes, every submit_task call returns: the           *)
(* submitting thread gets through all its calls.                           *)
(***************************************************************************)
C13_SubmitReturns == <>(poolReturned = PoolTasks)

(***************************************************************************)
(* C14: a resource is held by one thread at a time.  Between a thread's    *)
(* acquire_resource(r) returning True and its release_resource(r), no      *)
(* other thread's acquire_resource(r) returns, the first calls for r made  *)
(* at the same time included.                                              *)
(***************************************************************************)
C14_ExclusiveAccess ==
    \A t1, t2 \in RmThreads : t1 # t2 => rmHeld[t1] \cap rmHeld[t2] = {}

(***************************************************************************)
(* C15: two threads that each acquire A, acquire B, release B and release  *)
(* A both get through all four calls, when each thread that can take a     *)
(* step is scheduled in the end.                                           *)
(***************************************************************************)
C15_BothThreadsComplete == <>(\A t \in RmThreads : rmPc[t] = "done")

====
